---- MODULE Spec2Model ----
(***************************************************************************)
(* State-machine model of the user directory console:                      *)
(*   - Benutzerliste (the Directory Store): loaded collection, filters,    *)
(*     detail / delete dialogs, the list, get-by-id and delete calls;      *)
(*   - BenutzerForm (the Form Controller): draft, validation, submission.  *)
(* Strings are sequences of one-character strings, so that toLowerCase,    *)
(* includes, trim, the e-mail pattern and sort() are computed.             *)
(* An absent (undefined) string member is modelled as the empty string:    *)
(* every read of such a member in the source is guarded by truthiness.     *)
(* An absent or null object (editUser, selectedUser) is the empty          *)
(* sequence, a present one a sequence of length one.                       *)
(***************************************************************************)
EXTENDS Integers, Sequences, FiniteSets, TLC

\* ----------------------------------------------------------------- strings
Upper == <<"A","B","C","D","E","F","G","H","I","J","K","L","M",
           "N","O","P","Q","R","S","T","U","V","W","X","Y","Z">>
Lower == <<"a","b","c","d","e","f","g","h","i","j","k","l","m",
           "n","o","p","q","r","s","t","u","v","w","x","y","z">>
\* code-unit order of the characters in use: space < . < @ < A-Z < a-z
CodeOrder == <<" ", ".", "@">> \o Upper \o Lower

CharCode(c) == CHOOSE i \in 1..Len(CodeOrder) : CodeOrder[i] = c

ToLowerChar(c) ==
    IF \E i \in 1..Len(Upper) : Upper[i] = c
    THEN Lower[CHOOSE i \in 1..Len(Upper) : Upper[i] = c]
    ELSE c

toLowerCase(s) == [i \in 1..Len(s) |-> ToLowerChar(s[i])]

\* String.prototype.includes
includes(s, t) ==
    \E i \in 0..(Len(s) - Len(t)) : SubSeq(s, i + 1, i + Len(t)) = t

\* a < b in the order Array.prototype.sort() uses by default (code units)
RECURSIVE StrLess(_, _)
StrLess(a, b) ==
    IF b = <<>> THEN FALSE
    ELSE IF a = <<>> THEN TRUE
    ELSE IF CharCode(a[1]) # CharCode(b[1]) THEN CharCode(a[1]) < CharCode(b[1])
    ELSE StrLess(Tail(a), Tail(b))

\* Array.from(set).sort()
RECURSIVE SortedSeq(_)
SortedSeq(S) ==
    IF S = {} THEN <<>>
    ELSE LET m == CHOOSE x \in S : \A y \in S \ {x} : StrLess(x, y)
         IN  <<m>> \o SortedSeq(S \ {m})

Range(s) == {s[i] : i \in 1..Len(s)}

\* -------------------------------------------------------------- test data
Empty == <<>>
Acme == <<"A","c","m","e">>
Beta == <<"B","e","t","a">>
ADMIN == <<"A","D","M","I","N">>
USER == <<"U","S","E","R">>

Membership(name, roleNames) ==
    [orgName |-> name,
     roles |-> [i \in 1..Len(roleNames) |-> [roleName |-> roleNames[i]]]]

\* the records the gateway serves: A has two memberships, out of order; B
\* carries its names and e-mail under the alternative member names only and has
\* a membership without roles and one with an empty name; C has no memberships
UserA == [userUid |-> 1, username |-> <<"a","n","n">>,
          firstname |-> <<"A","l">>, lastname |-> <<"R","o","e">>,
          mail |-> <<"a","@","x",".","d","e">>,
          firstName |-> Empty, lastName |-> Empty, email |-> Empty,
          phone |-> Empty,
          organisations |-> <<Membership(Beta, <<USER>>), Membership(Acme, <<ADMIN>>)>>]
UserB == [userUid |-> 2, username |-> <<"b","o","b">>,
          firstname |-> Empty, lastname |-> Empty, mail |-> Empty,
          firstName |-> <<"B","o">>, lastName |-> <<"L","e","e">>,
          email |-> <<"b","@","x",".","d","e">>,
          phone |-> Empty,
          organisations |-> <<Membership(Acme, <<>>), Membership(Empty, <<>>)>>]
UserC == [userUid |-> 3, username |-> <<"c","y">>,
          firstname |-> <<"C","y">>, lastname |-> <<"N","g">>,
          mail |-> <<"c","@","x",".","d","e">>,
          firstName |-> Empty, lastName |-> Empty, email |-> Empty,
          phone |-> Empty,
          organisations |-> <<>>]

ListFull == <<UserA, UserB, UserC>>
ListOther == <<UserC>>

\* what the user may type into the search field
SearchTerms == {Empty, <<"A">>, <<"b">>}


\* what the gateway's list operation may answer: a response body is null, a
\* scalar, an array, or an object whose _embedded.users / content member is
\* absent ("undef"), an array ("seq") or another truthy value ("other")
Undef == [t |-> "undef", v |-> <<>>]
SeqVal(s) == [t |-> "seq", v |-> s]
OtherVal == [t |-> "other", v |-> <<>>]
Resp(k, u, c, i) == [kind |-> k, users |-> u, content |-> c, items |-> i]

RespNull == Resp("null", Undef, Undef, <<>>)
RespScalar == Resp("scalar", Undef, Undef, <<>>)
RespObject == Resp("object", Undef, Undef, <<>>)
RespHalBad == Resp("object", OtherVal, Undef, <<>>)
RespContentBad == Resp("object", Undef, OtherVal, <<>>)
RespHal(s) == Resp("object", SeqVal(s), Undef, <<>>)
RespArray(s) == Resp("array", Undef, Undef, s)
RespContent(s) == Resp("object", Undef, SeqVal(s), <<>>)

UserLists == {ListFull, ListOther, <<>>}
RecognisedResponses ==
    {RespHal(s) : s \in UserLists} \cup {RespArray(s) : s \in UserLists}
        \cup {RespContent(s) : s \in UserLists}
UnrecognisedResponses ==
    {RespNull, RespScalar, RespObject, RespHalBad, RespContentBad}
ListResponses == RecognisedResponses \cup UnrecognisedResponses

\* ------------------------------------------------------------------ values
Null == "null"
NullId == 0
NoUid == 0
MsgLoad == "Fehler beim Laden der Benutzer"
MsgDetail == "Fehler beim Laden der Benutzerdetails"
MsgDelete == "Fehler beim Loeschen des Benutzers"
MsgSave == "Fehler beim Speichern des Benutzers. Bitte versuchen Sie es erneut."

Fields == {"username", "firstname", "lastname", "mail", "phone", "organisation", "role"}

EmptyDraft == [userUid |-> NoUid, username |-> Empty, firstname |-> Empty,
               lastname |-> Empty, mail |-> Empty, phone |-> Empty,
               organisation |-> Empty, role |-> Empty]
NoErrors == [f \in Fields |-> Null]

\* a || b on strings
OrElse(a, b) == IF a # Empty THEN a ELSE b

\* the draft the form's effect builds from editUser (a sequence of 0 or 1)
DraftOf(editUser) ==
    IF editUser # <<>>
    THEN LET u == editUser[1]
             firstOrg == IF Len(u.organisations) > 0 THEN <<u.organisations[1]>> ELSE <<>>
         IN  [userUid |-> u.userUid,
              username |-> u.username,
              firstname |-> OrElse(u.firstname, u.firstName),
              lastname |-> OrElse(u.lastname, u.lastName),
              mail |-> OrElse(u.mail, u.email),
              phone |-> u.phone,
              organisation |-> IF firstOrg # <<>> THEN firstOrg[1].orgName ELSE Empty,
              role |-> IF firstOrg # <<>> /\ Len(firstOrg[1].roles) > 0
                       THEN firstOrg[1].roles[1].roleName ELSE Empty]
    ELSE EmptyDraft

\* --------------------------------------------------------------- variables
VARIABLES
    \* Benutzerliste state
    users, loading, error, searchTerm, organisationFilter, selectedUser,
    detailOpen, deleteDialogOpen, deleteTargetId, organisations, formOpen,
    editingUser,
    \* pending work of Benutzerliste
    mounted, extractTimer, listPending, deleteCalls, detailCalls,
    \* BenutzerForm state
    formData, errors, formLoading, formError, success,
    \* pending work of BenutzerForm
    submitCalls, settleTimers,
    \* history: the last successfully fetched collection, the ids removed
    \* locally since, and the non-empty filter applications since
    fetched, deleted, filterRun,
    \* history: for each pending create/update call and each settle timer,
    \* whether the form session that started it is over; whether the delete
    \* dialog's present request has been confirmed already
    callOver, timerOver, confirmedOnce

storeVars == <<users, loading, error, searchTerm, organisationFilter, selectedUser,
               detailOpen, deleteDialogOpen, deleteTargetId, organisations, formOpen,
               editingUser>>
pendingVars == <<mounted, extractTimer, listPending, deleteCalls, detailCalls>>
formVars == <<formData, errors, formLoading, formError, success>>
formPending == <<submitCalls, settleTimers>>
sessionVars == <<callOver, timerOver, confirmedOnce>>
histVars == <<fetched, deleted, filterRun, sessionVars>>
vars == <<storeVars, pendingVars, formVars, formPending>>

Init ==
    /\ users = <<>>
    /\ loading = FALSE
    /\ error = Null
    /\ searchTerm = Empty
    /\ organisationFilter = Empty
    /\ selectedUser = <<>>
    /\ detailOpen = FALSE
    /\ deleteDialogOpen = FALSE
    /\ deleteTargetId = NullId
    /\ organisations = <<>>
    /\ formOpen = FALSE
    /\ editingUser = <<>>
    /\ mounted = FALSE
    /\ extractTimer = FALSE
    /\ listPending = 0
    /\ deleteCalls = <<>>
    /\ detailCalls = <<>>
    /\ formData = EmptyDraft
    /\ errors = NoErrors
    /\ formLoading = FALSE
    /\ formError = Null
    /\ success = FALSE
    /\ submitCalls = <<>>
    /\ settleTimers = <<>>
    /\ fetched = <<>>
    /\ deleted = {}
    /\ callOver = <<>>
    /\ timerOver = <<>>
    /\ confirmedOnce = FALSE
    /\ filterRun = 0


\* ------------------------------------------------------- Response Normalizer
\* a normaliser that has lost its third branch, the paginated envelope
ExtractUserListTwoShapes(r) ==
    IF r.kind = "object" /\ r.users.t # "undef" THEN r.users
    ELSE IF r.kind = "array" THEN SeqVal(r.items)
    ELSE SeqVal(<<>>)

\* the value fetchUsers assigns to userList
ExtractUserList(r) ==
    IF r.kind = "object" /\ r.users.t # "undef" THEN r.users
    ELSE IF r.kind = "array" THEN SeqVal(r.items)
    ELSE IF r.kind = "object" /\ r.content.t = "seq" THEN r.content
    ELSE SeqVal(<<>>)

\* reading a member of null raises a TypeError inside the try block
Throws(r) == r.kind = "null"

\* Array.isArray(userList) ? userList : []
NormalizedUsers(r) ==
    LET userList == ExtractUserList(r)
    IN  IF userList.t = "seq" THEN userList.v ELSE <<>>

\* -------------------------------------------------------- Organisation Index
\* an extraction that has lost its check of org.orgName
OrgNamesUnchecked(list) ==
    UNION {{list[i].organisations[j].orgName : j \in 1..Len(list[i].organisations)}
               : i \in 1..Len(list)}

OrgNames(list) ==
    UNION {{list[i].organisations[j].orgName : j \in 1..Len(list[i].organisations)}
               : i \in 1..Len(list)} \ {Empty}

OrgIndex(list) == SortedSeq(OrgNames(list))

\* ------------------------------------------------------------- Filter Engine
\* a text predicate that also searches the organisation names
MatchesTextOrOrganisation(user, nameFilter) ==
    LET searchLower == toLowerCase(nameFilter)
    IN  \/ (user.firstname # Empty /\ includes(toLowerCase(user.firstname), searchLower))
        \/ (user.lastname # Empty /\ includes(toLowerCase(user.lastname), searchLower))
        \/ (user.username # Empty /\ includes(toLowerCase(user.username), searchLower))
        \/ (user.mail # Empty /\ includes(toLowerCase(user.mail), searchLower))
        \/ \E j \in 1..Len(user.organisations) :
               includes(toLowerCase(user.organisations[j].orgName), searchLower)

MatchesText(user, nameFilter) ==
    LET searchLower == toLowerCase(nameFilter)
    IN  \/ (user.firstname # Empty /\ includes(toLowerCase(user.firstname), searchLower))
        \/ (user.lastname # Empty /\ includes(toLowerCase(user.lastname), searchLower))
        \/ (user.username # Empty /\ includes(toLowerCase(user.username), searchLower))
        \/ (user.mail # Empty /\ includes(toLowerCase(user.mail), searchLower))

MatchesOrg(user, orgFilter) ==
    \E j \in 1..Len(user.organisations) : user.organisations[j].orgName = orgFilter

\* a filter whose organisation step has lost its guard on an empty selection
FilteredAlwaysByOrg(list, nameFilter, orgFilter) ==
    LET byName(u) == nameFilter = Empty \/ MatchesText(u, nameFilter)
        byOrg(u) == MatchesOrg(u, orgFilter)
        afterName == SelectSeq(list, byName)
    IN  SelectSeq(afterName, byOrg)

\* the list applyFilters stores when a filter is not empty
Filtered(list, nameFilter, orgFilter) ==
    LET byName(u) == nameFilter = Empty \/ MatchesText(u, nameFilter)
        byOrg(u) == orgFilter = Empty \/ MatchesOrg(u, orgFilter)
        afterName == SelectSeq(list, byName)
    IN  SelectSeq(afterName, byOrg)

\* ------------------------------------------------------------------ helpers
\* the component returns only the spinner while loading with no users: no
\* control, no dialog and no BenutzerForm is rendered then
RenderedWith(l, u) == ~(l /\ Len(u) = 0)
Rendered == RenderedWith(loading, users)

\* the user can act: the 0 ms timer of the mount effect has run and the
\* component renders its controls
UiReady == mounted /\ ~extractTimer /\ Rendered

\* the list's own controls can be used: no modal dialog is open
ListIdle == UiReady /\ ~formOpen /\ ~deleteDialogOpen /\ ~detailOpen

RemoveAt(q, i) == SubSeq(q, 1, i - 1) \o SubSeq(q, i + 1, Len(q))

\* A pending create/update call or settle timer carries the generation of the
\* form instance that started it: 0 for the mounted instance, a positive
\* number for an unmounted one, older instances having the larger numbers.
\* Only "same instance" and "mounted" are read from it, so the generations in
\* use are kept consecutive.
HasLive(q) == \E i \in 1..Len(q) : q[i].gen = 0
Aged(q) == [i \in 1..Len(q) |-> [q[i] EXCEPT !.gen = @ + 1]]
Gens(q) == {q[i].gen : i \in 1..Len(q)} \ {0}
Renumbered(q, calls, timers) ==
    LET inUse == Gens(calls) \cup Gens(timers)
        rank(g) == IF g = 0 THEN 0 ELSE Cardinality({h \in inUse : h <= g})
    IN  [i \in 1..Len(q) |-> [q[i] EXCEPT !.gen = rank(@)]]

\* BenutzerForm's state after a step of Benutzerliste that leaves it with the
\* values given: unmounting discards it (calls and timers of the unmounted
\* instance grow one generation older), mounting runs the effect
Lifecycle(fd, er, fl, fe, su, calls, timers) ==
    LET after == RenderedWith(loading', users')
        live == HasLive(calls) \/ HasLive(timers)
        unmounts == Rendered /\ ~after
        c == IF unmounts /\ live THEN Aged(calls) ELSE calls
        t == IF unmounts /\ live THEN Aged(timers) ELSE timers
    IN  /\ submitCalls' = Renumbered(c, c, t)
        /\ settleTimers' = Renumbered(t, c, t)
        /\ IF unmounts
           THEN /\ formData' = EmptyDraft
                /\ errors' = NoErrors
                /\ formLoading' = FALSE
                /\ formError' = Null
                /\ success' = FALSE
           ELSE IF ~Rendered /\ after
           THEN /\ formData' = DraftOf(editingUser')
                /\ errors' = NoErrors
                /\ formLoading' = FALSE
                /\ formError' = Null
                /\ success' = FALSE
           ELSE /\ formData' = fd
                /\ errors' = er
                /\ formLoading' = fl
                /\ formError' = fe
                /\ success' = su

FormUntouched ==
    Lifecycle(formData, errors, formLoading, formError, success, submitCalls, settleTimers)

\* ------------------------------------------------------------ Benutzerliste
\* fetchUsers up to its await: the list call is issued
fetchUsers ==
    /\ loading' = TRUE
    /\ error' = Null
    /\ listPending' = listPending + 1

\* the mount effect: fetchUsers(); extractOrganisations()
Mount ==
    /\ ~mounted
    /\ mounted' = TRUE
    /\ fetchUsers
    /\ extractTimer' = TRUE
    /\ UNCHANGED <<users, searchTerm, organisationFilter, selectedUser, detailOpen,
                   deleteDialogOpen, deleteTargetId, organisations, formOpen,
                   editingUser, deleteCalls, detailCalls>>
    /\ FormUntouched

\* the timer of extractOrganisations: its closure holds the users of the
\* first render, the empty list
ExtractOrganisationsTimer ==
    /\ extractTimer
    /\ extractTimer' = FALSE
    /\ organisations' = OrgIndex(<<>>)
    /\ UNCHANGED <<users, loading, error, searchTerm, organisationFilter, selectedUser,
                   detailOpen, deleteDialogOpen, deleteTargetId, formOpen, editingUser,
                   mounted, listPending, deleteCalls, detailCalls, formVars,
                   formPending>>

\* a response that is dropped while a later list call is in flight
ListResolveLatestOnly(r) ==
    /\ listPending > 0
    /\ listPending' = listPending - 1
    /\ loading' = FALSE
    /\ IF Throws(r)
       THEN /\ error' = MsgLoad
            /\ UNCHANGED <<users, organisations>>
       ELSE /\ users' = IF listPending > 1 THEN users ELSE NormalizedUsers(r)
            /\ organisations' =
                   IF ExtractUserList(r).t = "seq" /\ Len(ExtractUserList(r).v) > 0
                   THEN OrgIndex(ExtractUserList(r).v)
                   ELSE organisations
            /\ UNCHANGED error
    /\ UNCHANGED <<searchTerm, organisationFilter, selectedUser, detailOpen,
                   deleteDialogOpen, deleteTargetId, formOpen, editingUser,
                   mounted, extractTimer, deleteCalls, detailCalls>>
    /\ FormUntouched

\* fetchUsers after its await, the gateway having answered r
ListResolve(r) ==
    /\ listPending > 0
    /\ listPending' = listPending - 1
    /\ loading' = FALSE
    /\ IF Throws(r)
       THEN /\ error' = MsgLoad
            /\ UNCHANGED <<users, organisations>>
       ELSE /\ users' = NormalizedUsers(r)
            /\ organisations' =
                   IF ExtractUserList(r).t = "seq" /\ Len(ExtractUserList(r).v) > 0
                   THEN OrgIndex(ExtractUserList(r).v)
                   ELSE organisations
            /\ UNCHANGED error
    /\ UNCHANGED <<searchTerm, organisationFilter, selectedUser, detailOpen,
                   deleteDialogOpen, deleteTargetId, formOpen, editingUser,
                   mounted, extractTimer, deleteCalls, detailCalls>>
    /\ FormUntouched

\* a catch block that empties the list
ListFaultBlanking ==
    /\ listPending > 0
    /\ listPending' = listPending - 1
    /\ loading' = FALSE
    /\ error' = MsgLoad
    /\ users' = <<>>
    /\ UNCHANGED <<organisations, searchTerm, organisationFilter, selectedUser,
                   detailOpen, deleteDialogOpen, deleteTargetId, formOpen, editingUser,
                   mounted, extractTimer, deleteCalls, detailCalls>>
    /\ FormUntouched

\* fetchUsers after its await, the gateway having faulted
ListFault ==
    /\ listPending > 0
    /\ listPending' = listPending - 1
    /\ loading' = FALSE
    /\ error' = MsgLoad
    /\ UNCHANGED <<users, organisations, searchTerm, organisationFilter, selectedUser,
                   detailOpen, deleteDialogOpen, deleteTargetId, formOpen, editingUser,
                   mounted, extractTimer, deleteCalls, detailCalls>>
    /\ FormUntouched

\* an applyFilters without its reload branch: it always filters locally
applyFiltersLocally(nameFilter, orgFilter) ==
    /\ users' = Filtered(users, nameFilter, orgFilter)
    /\ UNCHANGED <<loading, error, listPending>>

applyFilters(nameFilter, orgFilter) ==
    IF nameFilter = Empty /\ orgFilter = Empty
    THEN /\ fetchUsers
         /\ UNCHANGED users
    ELSE /\ users' = Filtered(users, nameFilter, orgFilter)
         /\ UNCHANGED <<loading, error, listPending>>

handleNameSearch(value) ==
    /\ ListIdle
    /\ value # searchTerm
    /\ searchTerm' = value
    /\ applyFilters(value, organisationFilter)
    /\ UNCHANGED <<organisationFilter, selectedUser, detailOpen, deleteDialogOpen,
                   deleteTargetId, organisations, formOpen, editingUser, mounted,
                   extractTimer, deleteCalls, detailCalls>>
    /\ FormUntouched

handleOrganisationFilter(value) ==
    /\ ListIdle
    /\ value # organisationFilter
    /\ organisationFilter' = value
    /\ applyFilters(searchTerm, value)
    /\ UNCHANGED <<searchTerm, selectedUser, detailOpen, deleteDialogOpen,
                   deleteTargetId, organisations, formOpen, editingUser, mounted,
                   extractTimer, deleteCalls, detailCalls>>
    /\ FormUntouched

\* the Alert's onClose
DismissError ==
    /\ ListIdle
    /\ error # Null
    /\ error' = Null
    /\ UNCHANGED <<users, loading, searchTerm, organisationFilter, selectedUser,
                   detailOpen, deleteDialogOpen, deleteTargetId, organisations, formOpen,
                   editingUser, pendingVars, formVars, formPending>>


\* --------------------------------------------------------- delete workflow
RowIds == {users[i].userUid : i \in 1..Len(users)}

\* a delete button that deletes at once, before the dialog is confirmed
handleOpenDeleteDialogDeleting(userId) ==
    /\ ListIdle
    /\ userId \in RowIds
    /\ deleteTargetId' = userId
    /\ deleteDialogOpen' = TRUE
    /\ deleteCalls' = Append(deleteCalls, [target |-> userId, snapshot |-> users])
    /\ UNCHANGED <<users, loading, error, searchTerm, organisationFilter, selectedUser,
                   detailOpen, organisations, formOpen, editingUser, mounted,
                   extractTimer, listPending, detailCalls, formVars, formPending>>

handleOpenDeleteDialog(userId) ==
    /\ ListIdle
    /\ userId \in RowIds
    /\ deleteTargetId' = userId
    /\ deleteDialogOpen' = TRUE
    /\ UNCHANGED <<users, loading, error, searchTerm, organisationFilter, selectedUser,
                   detailOpen, organisations, formOpen, editingUser, pendingVars,
                   formVars, formPending>>

handleCloseDeleteDialog ==
    /\ UiReady
    /\ deleteDialogOpen
    /\ deleteDialogOpen' = FALSE
    /\ deleteTargetId' = NullId
    /\ UNCHANGED <<users, loading, error, searchTerm, organisationFilter, selectedUser,
                   detailOpen, organisations, formOpen, editingUser, pendingVars,
                   formVars, formPending>>

\* the list handleConfirmDelete stores after a successful delete
\* the filter of handleConfirmDelete with its comparison inverted
WithoutUserInverted(list, id) ==
    LET keep(u) == u.userUid = id
    IN  SelectSeq(list, keep)

WithoutUser(list, id) ==
    LET keep(u) == u.userUid # id
    IN  SelectSeq(list, keep)

\* handleConfirmDelete up to its await: the delete call is issued; the
\* closure keeps the users and the deleteTargetId of the render it belongs to
handleConfirmDelete ==
    /\ UiReady
    /\ deleteDialogOpen
    /\ deleteCalls' = Append(deleteCalls, [target |-> deleteTargetId, snapshot |-> users])
    /\ UNCHANGED <<storeVars, mounted, extractTimer, listPending, detailCalls,
                   formVars, formPending>>

\* handleConfirmDelete after its await, the gateway having confirmed
DeleteOk(i) ==
    /\ i \in 1..Len(deleteCalls)
    /\ deleteCalls' = RemoveAt(deleteCalls, i)
    /\ users' = WithoutUser(deleteCalls[i].snapshot, deleteCalls[i].target)
    /\ deleteDialogOpen' = FALSE
    /\ deleteTargetId' = NullId
    /\ error' = Null
    /\ UNCHANGED <<loading, searchTerm, organisationFilter, selectedUser, detailOpen,
                   organisations, formOpen, editingUser, mounted, extractTimer,
                   listPending, detailCalls>>
    /\ FormUntouched

\* a catch block that also closes the dialog, as the success path does
DeleteFaultClosing(i) ==
    /\ i \in 1..Len(deleteCalls)
    /\ deleteCalls' = RemoveAt(deleteCalls, i)
    /\ error' = MsgDelete
    /\ deleteDialogOpen' = FALSE
    /\ deleteTargetId' = NullId
    /\ UNCHANGED <<users, loading, searchTerm, organisationFilter, selectedUser,
                   detailOpen, organisations, formOpen,
                   editingUser, mounted, extractTimer, listPending, detailCalls,
                   formVars, formPending>>

\* handleConfirmDelete after its await, the gateway having faulted
DeleteFault(i) ==
    /\ i \in 1..Len(deleteCalls)
    /\ deleteCalls' = RemoveAt(deleteCalls, i)
    /\ error' = MsgDelete
    /\ UNCHANGED <<users, loading, searchTerm, organisationFilter, selectedUser,
                   detailOpen, deleteDialogOpen, deleteTargetId, organisations, formOpen,
                   editingUser, mounted, extractTimer, listPending, detailCalls,
                   formVars, formPending>>

\* ------------------------------------------------------------- detail view
AllUsers == {UserA, UserB, UserC}
UserById(id) == CHOOSE u \in AllUsers : u.userUid = id

\* the get-by-id response: the record itself, or an envelope holding it
\* under its content member
DetailResponse(id, enveloped) ==
    IF enveloped THEN [content |-> <<UserById(id)>>] ELSE UserById(id)

\* a handler that stores the response as it came
UnwrapNothing(response) == response

\* response.content || response
Unwrap(response) ==
    IF "content" \in DOMAIN response /\ response.content # <<>>
    THEN response.content[1]
    ELSE response

handleViewDetails(userId) ==
    /\ ListIdle
    /\ userId \in RowIds
    /\ detailCalls' = Append(detailCalls, userId)
    /\ UNCHANGED <<storeVars, mounted, extractTimer, listPending, deleteCalls,
                   formVars, formPending>>

DetailOk(i, enveloped) ==
    /\ i \in 1..Len(detailCalls)
    /\ detailCalls' = RemoveAt(detailCalls, i)
    /\ selectedUser' = <<Unwrap(DetailResponse(detailCalls[i], enveloped))>>
    /\ detailOpen' = TRUE
    /\ UNCHANGED <<users, loading, error, searchTerm, organisationFilter,
                   deleteDialogOpen, deleteTargetId, organisations, formOpen,
                   editingUser, mounted, extractTimer, listPending, deleteCalls,
                   formVars, formPending>>

DetailFault(i) ==
    /\ i \in 1..Len(detailCalls)
    /\ detailCalls' = RemoveAt(detailCalls, i)
    /\ error' = MsgDetail
    /\ UNCHANGED <<users, loading, searchTerm, organisationFilter, selectedUser,
                   detailOpen, deleteDialogOpen, deleteTargetId, organisations, formOpen,
                   editingUser, mounted, extractTimer, listPending, deleteCalls,
                   formVars, formPending>>

handleCloseDetail ==
    /\ UiReady
    /\ detailOpen
    /\ detailOpen' = FALSE
    /\ selectedUser' = <<>>
    /\ UNCHANGED <<users, loading, error, searchTerm, organisationFilter,
                   deleteDialogOpen, deleteTargetId, organisations, formOpen,
                   editingUser, pendingVars, formVars, formPending>>

\* ------------------------------------------------------------- BenutzerForm
IsSpace(c) == c = " "

\* String.prototype.trim
RECURSIVE Trim(_)
Trim(s) ==
    IF s = <<>> THEN s
    ELSE IF IsSpace(s[1]) THEN Trim(Tail(s))
    ELSE IF IsSpace(s[Len(s)]) THEN Trim(SubSeq(s, 1, Len(s) - 1))
    ELSE s

\* [^\s@]+
Plain(s) == Len(s) > 0 /\ \A i \in 1..Len(s) : ~IsSpace(s[i]) /\ s[i] # "@"

\* a pattern that has lost its top-level part: /^[^\s@]+@[^\s@]+$/
EmailOkWithoutTld(s) ==
    \E i \in 1..Len(s) :
        /\ s[i] = "@"
        /\ Plain(SubSeq(s, 1, i - 1))
        /\ Plain(SubSeq(s, i + 1, Len(s)))

\* /^[^\s@]+@[^\s@]+\.[^\s@]+$/.test(s)
EmailOk(s) ==
    \E i \in 1..Len(s) :
        /\ s[i] = "@"
        /\ Plain(SubSeq(s, 1, i - 1))
        /\ \E j \in (i + 1)..Len(s) :
               /\ s[j] = "."
               /\ Plain(SubSeq(s, i + 1, j - 1))
               /\ Plain(SubSeq(s, j + 1, Len(s)))

ErrUsername == "Benutzername ist erforderlich"
ErrFirstname == "Vorname ist erforderlich"
ErrLastname == "Nachname ist erforderlich"
ErrMailRequired == "E-Mail ist erforderlich"
ErrMailInvalid == "Ungueltige E-Mail-Adresse"

Blank(s) == s = Empty \/ Trim(s) = Empty

\* the newErrors object of validateForm (Null: the member is absent)
NewErrors(fd) ==
    [f \in Fields |->
        CASE f = "username" -> IF Blank(fd.username) THEN ErrUsername ELSE Null
          [] f = "firstname" -> IF Blank(fd.firstname) THEN ErrFirstname ELSE Null
          [] f = "lastname" -> IF Blank(fd.lastname) THEN ErrLastname ELSE Null
          [] f = "mail" -> IF Blank(fd.mail) THEN ErrMailRequired
                           ELSE IF ~EmailOk(fd.mail) THEN ErrMailInvalid ELSE Null
          [] OTHER -> Null]

\* a validateForm that reports every draft valid
IsValidAlways(fd) == TRUE

\* Object.keys(newErrors).length === 0
IsValid(fd) == \A f \in Fields : NewErrors(fd)[f] = Null

\* the state the effect on [editUser, open] leaves the mounted form in
FormReset(editUser) ==
    /\ formData' = DraftOf(editUser)
    /\ errors' = NoErrors
    /\ formError' = Null
    /\ success' = FALSE

handleOpenCreateForm ==
    /\ ListIdle
    /\ editingUser' = <<>>
    /\ formOpen' = TRUE
    /\ FormReset(<<>>)
    /\ UNCHANGED <<users, loading, error, searchTerm, organisationFilter, selectedUser,
                   detailOpen, deleteDialogOpen, deleteTargetId, organisations,
                   pendingVars, formLoading, formPending>>

handleOpenEditForm(user) ==
    /\ ListIdle
    /\ user \in Range(users)
    /\ editingUser' = <<user>>
    /\ formOpen' = TRUE
    /\ FormReset(<<user>>)
    /\ UNCHANGED <<users, loading, error, searchTerm, organisationFilter, selectedUser,
                   detailOpen, deleteDialogOpen, deleteTargetId, organisations,
                   pendingVars, formLoading, formPending>>

\* a username field that is disabled only while loading
FieldEnabledWhileEditing(name) == ~formLoading

\* the inputs are disabled while loading, the username also while editing
FieldEnabled(name) == ~formLoading /\ (name = "username" => editingUser = <<>>)

\* a change that clears every field's error
handleChangeClearingAll(name, value) ==
    /\ UiReady /\ formOpen
    /\ FieldEnabled(name)
    /\ value # formData[name]
    /\ formData' = [formData EXCEPT ![name] = value]
    /\ errors' = NoErrors
    /\ UNCHANGED <<storeVars, pendingVars, formLoading, formError, success, formPending>>

handleChange(name, value) ==
    /\ UiReady /\ formOpen
    /\ FieldEnabled(name)
    /\ value # formData[name]
    /\ formData' = [formData EXCEPT ![name] = value]
    /\ errors' = IF errors[name] # Null THEN [errors EXCEPT ![name] = Null] ELSE errors
    /\ UNCHANGED <<storeVars, pendingVars, formLoading, formError, success, formPending>>

\* a handleSubmit that has lost its update branch
SubmitOpCreateOnly(editUser) == "create"

\* the gateway operation handleSubmit chooses
SubmitOp(editUser) ==
    IF editUser # <<>> /\ editUser[1].userUid # NoUid THEN "update" ELSE "create"

\* a submit button that is never disabled
SubmitAlwaysEnabled == TRUE

\* the submit button is disabled while loading
SubmitEnabled == ~formLoading

\* handleSubmit up to its await
handleSubmit ==
    /\ UiReady /\ formOpen
    /\ SubmitEnabled
    /\ errors' = NewErrors(formData)
    /\ IF ~IsValid(formData)
       THEN UNCHANGED <<formLoading, formError, submitCalls>>
       ELSE /\ formLoading' = TRUE
            /\ formError' = Null
            /\ submitCalls' = Append(submitCalls,
                   [gen |-> 0, op |-> SubmitOp(editingUser), uid |-> formData.userUid,
                    username |-> formData.username])
    /\ UNCHANGED <<storeVars, pendingVars, formData, success, settleTimers>>

\* handleSubmit after its await, the gateway having answered: the setters of
\* an unmounted instance (gen > 0) do nothing, its timer is started all the same
SubmitOk(i) ==
    /\ i \in 1..Len(submitCalls)
    /\ submitCalls' = RemoveAt(submitCalls, i)
    /\ settleTimers' = Append(settleTimers, [gen |-> submitCalls[i].gen])
    /\ IF submitCalls[i].gen = 0
       THEN success' = TRUE /\ formLoading' = FALSE
       ELSE UNCHANGED <<success, formLoading>>
    /\ UNCHANGED <<storeVars, pendingVars, formData, errors, formError>>

\* the message of a fault payload (Null: the payload carries none)
ServerMessage == "Benutzername bereits vergeben"
FaultMessages == {Null, ServerMessage}

\* a catch block that always shows the generic message
ErrorTextGeneric(message) == MsgSave

\* err.response?.data?.message || 'Fehler beim Speichern ...'
ErrorText(message) == IF message # Null THEN message ELSE MsgSave

\* handleSubmit after its await, the gateway having faulted
SubmitFault(i, message) ==
    /\ i \in 1..Len(submitCalls)
    /\ LET c == RemoveAt(submitCalls, i)
       IN  /\ submitCalls' = Renumbered(c, c, settleTimers)
           /\ settleTimers' = Renumbered(settleTimers, c, settleTimers)
    /\ IF submitCalls[i].gen = 0
       THEN formError' = ErrorText(message) /\ formLoading' = FALSE
       ELSE UNCHANGED <<formError, formLoading>>
    /\ UNCHANGED <<storeVars, pendingVars, formData, errors, success>>

\* a close that keeps the draft and its messages
handleCloseKeepingDraft ==
    /\ UiReady /\ formOpen
    /\ formOpen' = FALSE
    /\ editingUser' = <<>>
    /\ UNCHANGED <<users, loading, error, searchTerm, organisationFilter, selectedUser,
                   detailOpen, deleteDialogOpen, deleteTargetId, organisations,
                   pendingVars, formVars, formPending>>

\* handleClose of the mounted form: the cancel button, or the dialog's onClose
handleClose ==
    /\ UiReady /\ formOpen
    /\ FormReset(<<>>)
    /\ formOpen' = FALSE
    /\ editingUser' = <<>>
    /\ UNCHANGED <<users, loading, error, searchTerm, organisationFilter, selectedUser,
                   detailOpen, deleteDialogOpen, deleteTargetId, organisations,
                   pendingVars, formLoading, formPending>>

\* a settle timer that closes the form without raising the success signal
SettleTimerClosingOnly(i) ==
    /\ i \in 1..Len(settleTimers)
    /\ formOpen' = FALSE
    /\ editingUser' = <<>>
    /\ UNCHANGED <<users, loading, error, searchTerm, organisationFilter, selectedUser,
                   detailOpen, deleteDialogOpen, deleteTargetId, organisations,
                   pendingVars>>
    /\ Lifecycle(EmptyDraft, NoErrors, formLoading, Null, FALSE, submitCalls,
                 RemoveAt(settleTimers, i))

\* the settle timer: onSuccess() (handleFormSuccess: fetchUsers, handleCloseForm)
\* and handleClose() of the instance that started it; the effect of the
\* mounted instance runs when its editUser or open changed
SettleTimer(i) ==
    /\ i \in 1..Len(settleTimers)
    /\ fetchUsers
    /\ formOpen' = FALSE
    /\ editingUser' = <<>>
    /\ UNCHANGED <<users, searchTerm, organisationFilter, selectedUser, detailOpen,
                   deleteDialogOpen, deleteTargetId, organisations, mounted,
                   extractTimer, deleteCalls, detailCalls>>
    /\ LET resets == settleTimers[i].gen = 0 \/ formOpen \/ editingUser # <<>>
       IN  Lifecycle(IF resets THEN EmptyDraft ELSE formData,
                     IF resets THEN NoErrors ELSE errors,
                     formLoading,
                     IF resets THEN Null ELSE formError,
                     IF resets THEN FALSE ELSE success,
                     submitCalls,
                     RemoveAt(settleTimers, i))

\* ------------------------------------------------------------------ bounds
\* list calls in flight together, while the list is browsed and filtered
MaxList == 2
\* list calls in flight together, while users are deleted
MaxListDeleting == 1
\* delete calls in flight together
MaxDelete == 1
\* list calls in flight together, while the form is used
MaxListEditing == 1
\* create/update calls in flight and settle timers pending, together
MaxFormPending == 2
\* get-by-id calls in flight together
MaxDetail == 2

\* ------------------------------------------- browsing: list calls and filters
NextFilter ==
    \/ Mount /\ UNCHANGED histVars
    \/ ExtractOrganisationsTimer /\ UNCHANGED histVars
    \/ \E r \in ListResponses : ListResolve(r) /\ UNCHANGED histVars
    \/ ListFault /\ UNCHANGED histVars
    \/ \E value \in SearchTerms :
           handleNameSearch(value) /\ listPending' <= MaxList /\ UNCHANGED histVars
    \/ \E value \in {Empty} \cup Range(organisations) :
           handleOrganisationFilter(value) /\ listPending' <= MaxList
               /\ UNCHANGED histVars
    \/ DismissError /\ UNCHANGED histVars

SpecFilter == Init /\ [][NextFilter]_vars

\* ----------------------------- deleting: list calls, text search and deletes
NextDelete ==
    \/ Mount /\ UNCHANGED histVars
    \/ ExtractOrganisationsTimer /\ UNCHANGED histVars
    \/ \E r \in ListResponses : ListResolve(r) /\ UNCHANGED histVars
    \/ ListFault /\ UNCHANGED histVars
    \/ \E value \in SearchTerms :
           handleNameSearch(value) /\ listPending' <= MaxListDeleting
               /\ UNCHANGED histVars
    \/ \E userId \in RowIds : handleOpenDeleteDialog(userId) /\ UNCHANGED histVars
    \/ handleCloseDeleteDialog /\ UNCHANGED histVars
    \/ handleConfirmDelete /\ Len(deleteCalls') <= MaxDelete /\ UNCHANGED histVars
    \/ \E i \in 1..Len(deleteCalls) : DeleteOk(i) /\ UNCHANGED histVars
    \/ \E i \in 1..Len(deleteCalls) : DeleteFault(i) /\ UNCHANGED histVars

SpecDelete == Init /\ [][NextDelete]_vars

\* ------- the Directory Store with its history: what was fetched last, which
\* ids were removed locally since, how many filters were applied in a row
Counted(n) == IF n < 2 THEN n + 1 ELSE n

NextStore ==
    \/ Mount /\ UNCHANGED histVars
    \/ ExtractOrganisationsTimer /\ UNCHANGED histVars
    \/ \E r \in ListResponses :
           /\ ListResolve(r)
           /\ IF Throws(r) THEN UNCHANGED histVars
              ELSE /\ fetched' = users' /\ deleted' = {} /\ filterRun' = 0
                   /\ UNCHANGED sessionVars
    \/ ListFault /\ UNCHANGED histVars
    \/ \E value \in SearchTerms :
           /\ handleNameSearch(value) /\ listPending' <= MaxListDeleting
           /\ filterRun' = IF listPending' > listPending THEN 0 ELSE Counted(filterRun)
           /\ UNCHANGED <<fetched, deleted, sessionVars>>
    \/ \E value \in {Empty} \cup Range(organisations) :
           /\ handleOrganisationFilter(value) /\ listPending' <= MaxListDeleting
           /\ filterRun' = IF listPending' > listPending THEN 0 ELSE Counted(filterRun)
           /\ UNCHANGED <<fetched, deleted, sessionVars>>
    \/ \E userId \in RowIds : handleOpenDeleteDialog(userId) /\ UNCHANGED histVars
    \/ handleCloseDeleteDialog /\ UNCHANGED histVars
    \/ handleConfirmDelete /\ Len(deleteCalls') <= MaxDelete /\ UNCHANGED histVars
    \/ \E i \in 1..Len(deleteCalls) :
           /\ DeleteOk(i)
           /\ deleted' = deleted \cup {deleteCalls[i].target}
           /\ filterRun' = 0
           /\ UNCHANGED <<fetched, sessionVars>>
    \/ \E i \in 1..Len(deleteCalls) : DeleteFault(i) /\ UNCHANGED histVars

SpecStore == Init /\ [][NextStore]_vars

\* ------------------------------- the Form Controller, opened from the list
\* what the user types into the fields of the form
FieldValues(name) ==
    CASE name = "username" -> {<<"e","v">>}
      [] name = "firstname" -> {<<"E">>}
      [] name = "lastname" -> {<<"V">>}
      [] name = "mail" -> {<<"e","@","x",".","d","e">>}
      [] OTHER -> {}

\* what the gateway's list operation answers meanwhile
ListResponsesEditing == {RespArray(ListFull), RespHal(<<>>), RespNull}

NextForm ==
    \/ Mount /\ UNCHANGED histVars
    \/ ExtractOrganisationsTimer /\ UNCHANGED histVars
    \/ \E r \in ListResponsesEditing : ListResolve(r) /\ UNCHANGED histVars
    \/ ListFault /\ UNCHANGED histVars
    \/ handleOpenCreateForm /\ UNCHANGED histVars
    \/ \E user \in Range(users) : handleOpenEditForm(user) /\ UNCHANGED histVars
    \/ \E name \in Fields : \E value \in FieldValues(name) :
           handleChange(name, value) /\ UNCHANGED histVars
    \/ handleSubmit /\ Len(submitCalls') + Len(settleTimers') <= MaxFormPending
           /\ UNCHANGED histVars
    \/ \E i \in 1..Len(submitCalls) : SubmitOk(i) /\ UNCHANGED histVars
    \/ \E i \in 1..Len(submitCalls), message \in FaultMessages :
           SubmitFault(i, message) /\ UNCHANGED histVars
    \/ handleClose /\ UNCHANGED histVars
    \/ \E i \in 1..Len(settleTimers) :
           SettleTimer(i) /\ listPending' <= MaxListEditing /\ UNCHANGED histVars

SpecForm == Init /\ [][NextForm]_vars

\* ------------------------------------- detail view: list calls and details
NextDetail ==
    \/ Mount /\ UNCHANGED histVars
    \/ ExtractOrganisationsTimer /\ UNCHANGED histVars
    \/ \E r \in ListResponses : ListResolve(r) /\ UNCHANGED histVars
    \/ ListFault /\ UNCHANGED histVars
    \/ DismissError /\ UNCHANGED histVars
    \/ \E userId \in RowIds :
           handleViewDetails(userId) /\ Len(detailCalls') <= MaxDetail
               /\ UNCHANGED histVars
    \/ \E i \in 1..Len(detailCalls), enveloped \in BOOLEAN :
           DetailOk(i, enveloped) /\ UNCHANGED histVars
    \/ \E i \in 1..Len(detailCalls) : DetailFault(i) /\ UNCHANGED histVars
    \/ handleCloseDetail /\ UNCHANGED histVars

SpecDetail == Init /\ [][NextDetail]_vars

\* ---------------------------- validation: a new-user form filled in freely
\* what the user types into the fields of the form, blanks included
TypedValues(name) ==
    CASE name = "username" -> {Empty, <<" ">>, <<" ","u">>}
      [] name = "firstname" -> {Empty, <<" "," ">>, <<"E">>}
      [] name = "lastname" -> {Empty, <<"V"," ">>}
      [] name = "mail" -> {Empty, <<" ">>,
                           <<"a","@","b">>,
                           <<"a","@","b",".","c","o","m">>,
                           <<"a"," ","@","b",".","c">>,
                           <<"a","@","@","b",".","c">>,
                           <<"@","b",".","c">>,
                           <<"a","@","b",".">>,
                           <<"a","@",".","c">>}
      [] name = "phone" -> {Empty, <<"7">>}
      [] name = "organisation" -> {Empty, Acme}
      [] name = "role" -> {Empty, ADMIN}

NextValidate ==
    \/ Mount /\ UNCHANGED histVars
    \/ ExtractOrganisationsTimer /\ UNCHANGED histVars
    \/ ListResolve(RespHal(<<>>)) /\ UNCHANGED histVars
    \/ handleOpenCreateForm /\ UNCHANGED histVars
    \/ \E name \in Fields : \E value \in TypedValues(name) :
           handleChange(name, value) /\ UNCHANGED histVars
    \/ handleSubmit /\ UNCHANGED histVars

SpecValidate == Init /\ [][NextValidate]_vars

\* ------------------- the settle delay: records edited, saved and the form
\* closed and reopened while create/update calls and settle timers are pending
\* create/update calls, settle timers and the list calls they started, together
MaxSettleWork == 2

\* what the gateway's list operation answers meanwhile
ListResponsesSettling == {RespArray(ListFull), RespArray(ListOther), RespHal(<<>>)}

AllOver(q) == [i \in 1..Len(q) |-> TRUE]

\* setTimeout callbacks always run (part_000 233-236): the settle timer is
\* weakly fair; nothing is assumed of the gateway or the user
SettleStep ==
    \E i \in 1..Len(settleTimers) :
        /\ SettleTimer(i)
        /\ callOver' = AllOver(callOver)
        /\ timerOver' = AllOver(RemoveAt(timerOver, i))
        /\ UNCHANGED <<fetched, deleted, filterRun, confirmedOnce>>

NextSettle ==
    \/ Mount /\ UNCHANGED histVars
    \/ ExtractOrganisationsTimer /\ UNCHANGED histVars
    \/ \E r \in ListResponsesSettling : ListResolve(r) /\ UNCHANGED histVars
    \/ ListFault /\ UNCHANGED histVars
    \/ \E user \in Range(users) : handleOpenEditForm(user) /\ UNCHANGED histVars
    \/ /\ handleSubmit
       /\ listPending + Len(submitCalls') + Len(settleTimers') <= MaxSettleWork
       /\ callOver' = IF Len(submitCalls') > Len(submitCalls)
                      THEN Append(callOver, FALSE) ELSE callOver
       /\ UNCHANGED <<fetched, deleted, filterRun, timerOver, confirmedOnce>>
    \/ \E i \in 1..Len(submitCalls) :
           /\ SubmitOk(i)
           /\ timerOver' = Append(timerOver, callOver[i])
           /\ callOver' = RemoveAt(callOver, i)
           /\ UNCHANGED <<fetched, deleted, filterRun, confirmedOnce>>
    \/ \E i \in 1..Len(submitCalls), message \in FaultMessages :
           /\ SubmitFault(i, message)
           /\ callOver' = RemoveAt(callOver, i)
           /\ UNCHANGED <<fetched, deleted, filterRun, timerOver, confirmedOnce>>
    \/ /\ handleClose
       /\ callOver' = AllOver(callOver)
       /\ timerOver' = AllOver(timerOver)
       /\ UNCHANGED <<fetched, deleted, filterRun, confirmedOnce>>
    \/ SettleStep

SpecSettle == Init /\ [][NextSettle]_vars /\ WF_vars(SettleStep)

\* ------------- the delete dialog, its confirm button pressed more than once
\* delete calls in flight together
MaxConfirm == 2

\* what the gateway's list operation answers
ListResponsesConfirming == {RespArray(ListFull), RespArray(ListOther)}

NextConfirm ==
    \/ Mount /\ UNCHANGED histVars
    \/ ExtractOrganisationsTimer /\ UNCHANGED histVars
    \/ \E r \in ListResponsesConfirming : ListResolve(r) /\ UNCHANGED histVars
    \/ ListFault /\ UNCHANGED histVars
    \/ \E userId \in RowIds :
           /\ handleOpenDeleteDialog(userId)
           /\ confirmedOnce' = FALSE
           /\ UNCHANGED <<fetched, deleted, filterRun, callOver, timerOver>>
    \/ /\ handleCloseDeleteDialog
       /\ confirmedOnce' = FALSE
       /\ UNCHANGED <<fetched, deleted, filterRun, callOver, timerOver>>
    \/ /\ handleConfirmDelete /\ Len(deleteCalls') <= MaxConfirm
       /\ confirmedOnce' = TRUE
       /\ UNCHANGED <<fetched, deleted, filterRun, callOver, timerOver>>
    \/ \E i \in 1..Len(deleteCalls) :
           /\ DeleteOk(i)
           /\ confirmedOnce' = FALSE
           /\ UNCHANGED <<fetched, deleted, filterRun, callOver, timerOver>>
    \/ \E i \in 1..Len(deleteCalls) : DeleteFault(i) /\ UNCHANGED histVars

SpecConfirm == Init /\ [][NextConfirm]_vars

\* ------------------------------------------------------------------ claims
\* the loaded collection: the last successful fetch minus the records
\* removed locally since
Loaded ==
    LET kept(u) == u.userUid \notin deleted
    IN  SelectSeq(fetched, kept)

\* C1: whenever no list call is in flight, the displayed collection is
\* visible(L, F) for the loaded collection L and the current FilterState F;
\* filtering removes nothing from the loaded collection.
C1_DisplayedIsVisibleOfLoaded ==
    listPending = 0 => users = Filtered(Loaded, searchTerm, organisationFilter)

\* C2: after any run of applyFilters calls with non-empty filters and no
\* refresh in between, every user of the fetched collection that matches the
\* current FilterState is displayed.
C2_FiltersDoNotCompound ==
    filterRun >= 1 =>
        \A k \in 1..Len(Loaded) :
            Filtered(<<Loaded[k]>>, searchTerm, organisationFilter) # <<>>
                => Loaded[k] \in Range(users)

\* C3: when the delete call succeeds, the collection is the collection the
\* operation was called with, less exactly the target record and otherwise in
\* order; the dialog is closed, the target cleared, no list call is issued.
C3_DeleteRemovesExactlyTarget ==
    [][\A i \in 1..Len(deleteCalls) :
          DeleteOk(i) =>
              LET before == deleteCalls[i].snapshot
                  target == deleteCalls[i].target
                  others(u) == u.userUid # target
              IN  /\ users' = SelectSeq(before, others)
                  /\ \A k \in 1..Len(users') : users'[k].userUid # target
                  /\ deleteDialogOpen' = FALSE
                  /\ deleteTargetId' = NullId
                  /\ listPending' = listPending]_vars

\* a delete has succeeded: bob is gone from the full list, the others remain
C3_Witness ==
    /\ users = <<UserA, UserC>>
    /\ deleteCalls = <<>>
    /\ ~deleteDialogOpen
    /\ deleteTargetId = NullId
    /\ listPending = 0

\* C4, as stated: when the delete call faults, a general error is set, the
\* collection is unchanged and the dialog is open with the target still set.
C4_FaultLeavesDialogOpen ==
    [][\A i \in 1..Len(deleteCalls) :
          DeleteFault(i) =>
              /\ error' = MsgDelete
              /\ users' = users
              /\ deleteDialogOpen' = TRUE
              /\ deleteTargetId' = deleteCalls[i].target]_vars

\* C4, amended: when the delete call faults, a general error is set, the
\* collection is unchanged and the fault handling itself neither closes the
\* dialog nor clears the target: both are as they were when the fault
\* arrived (open with the target set unless the user cancelled meanwhile).
C4_FaultLeavesDialogAsItWas ==
    [][\A i \in 1..Len(deleteCalls) :
          DeleteFault(i) =>
              /\ error' = MsgDelete
              /\ users' = users
              /\ deleteDialogOpen' = deleteDialogOpen
              /\ deleteTargetId' = deleteTargetId]_vars

\* a delete has faulted and the dialog is still open on its target
C4_Witness ==
    /\ error = MsgDelete
    /\ deleteCalls = <<>>
    /\ deleteDialogOpen
    /\ deleteTargetId # NullId

\* C5: when the list call faults, a general error is set and the collection
\* and the organisation options stay exactly as they were.
C5_FailedRefreshKeepsCollection ==
    [][ListFault =>
          /\ error' = MsgLoad
          /\ users' = users
          /\ organisations' = organisations]_vars

\* a refresh has failed with users on display
C5_Witness ==
    /\ error = MsgLoad
    /\ users # <<>>
    /\ organisations # <<>>
    /\ listPending = 0

\* C6: submit on a valid draft issues exactly one call: update when the
\* draft carries an id, create when it carries none.
C6_IdDecidesCreateOrUpdate ==
    [][(handleSubmit /\ NewErrors(formData) = NoErrors) =>
          /\ Len(submitCalls') = Len(submitCalls) + 1
          /\ SubSeq(submitCalls', 1, Len(submitCalls)) = submitCalls
          /\ LET call == submitCalls'[Len(submitCalls')]
             IN  /\ call.uid = formData.userUid
                 /\ call.op = IF formData.userUid # NoUid THEN "update" ELSE "create"]_vars

\* an update call is in flight for a draft with an id
C6_Witness ==
    \E i \in 1..Len(submitCalls) :
        /\ submitCalls[i].op = "update"
        /\ submitCalls[i].uid # NoUid
        /\ submitCalls[i].gen = 0

\* C7: submit on a draft that fails validation stores the field errors,
\* issues no call, does not enter the submitting state and leaves the draft
\* unchanged and editable.
C7_InvalidSubmitStaysLocal ==
    [][(handleSubmit /\ NewErrors(formData) # NoErrors) =>
          /\ errors' = NewErrors(formData)
          /\ submitCalls' = submitCalls
          /\ settleTimers' = settleTimers
          /\ formLoading' = FALSE
          /\ formData' = formData
          /\ \A name \in Fields \ {"username"} : FieldEnabled(name)']_vars

\* an invalid draft was submitted: errors are shown, nothing is in flight
C7_Witness ==
    /\ formOpen
    /\ errors # NoErrors
    /\ formData.username # Empty
    /\ ~formLoading
    /\ submitCalls = <<>>
    /\ settleTimers = <<>>

\* C8: a form instance has at most one create/update call in flight, and
\* while it is submitting its submit cannot be triggered.
C8_OneSubmissionPerInstance ==
    /\ \A i, j \in 1..Len(submitCalls) :
           i # j => submitCalls[i].gen # submitCalls[j].gen
    /\ HasLive(submitCalls) => formLoading /\ ~SubmitEnabled

\* the open form is submitting, its call in flight
C8_Witness ==
    /\ formOpen
    /\ formLoading
    /\ HasLive(submitCalls)
    /\ IsValid(formData)

\* C9: after every successful refresh, every applyFilters replacement and
\* every successful delete, the organisation options are the Organisation
\* Index of the collection then loaded.
C9_OrganisationsFollowCollection ==
    [][(\/ \E r \in ListResponses : ~Throws(r) /\ ListResolve(r)
        \/ \E value \in SearchTerms :
               handleNameSearch(value) /\ listPending' = listPending
        \/ \E value \in Range(organisations) : handleOrganisationFilter(value)
        \/ \E i \in 1..Len(deleteCalls) : DeleteOk(i))
           => organisations' = OrgIndex(users')]_vars

\* C10: a list response of none of the three recognised shapes is
\* normalised to the empty sequence: the collection becomes empty and no
\* error is set.
C10_UnrecognisedShapeIsEmpty ==
    [][\A r \in UnrecognisedResponses :
          ListResolve(r) => users' = <<>> /\ error' = error]_vars

\* C11: for every sequence of users S, the envelope with a nested users
\* sequence, the bare sequence and the paginated envelope carrying S all
\* leave S, in order, as the loaded collection.
C11_ThreeShapesSameSequence ==
    [][\A s \in UserLists :
          \A r \in {RespHal(s), RespArray(s), RespContent(s)} :
              ListResolve(r) => users' = s /\ error' = error]_vars

\* a three-user list has been loaded and is on display, in order
C11_Witness ==
    /\ users = ListFull
    /\ Len(users) = 3
    /\ listPending = 0
    /\ error = Null
    /\ searchTerm = Empty
    /\ organisationFilter = Empty

\* the four fields the text term is looked up in
TextOf(u) == {u.firstname, u.lastname, u.username, u.mail}

\* the organisation names a user may select
OrgChoices == {Empty, Acme, Beta}

\* a user satisfies the text predicate and the organisation predicate
SatisfiesBoth(u, term, org) ==
    /\ term = Empty
          \/ \E field \in TextOf(u) : includes(toLowerCase(field), toLowerCase(term))
    /\ org = Empty
          \/ \E j \in 1..Len(u.organisations) : u.organisations[j].orgName = org

\* the users of a collection, in order, that satisfy both predicates
Satisfying(list, term, org) ==
    LET ok(u) == SatisfiesBoth(u, term, org)
    IN  SelectSeq(list, ok)

\* C12: for a non-empty filter the result is exactly the users, in original
\* order, whose first name, last name, username or e-mail contains the term
\* (case-insensitive; any user if the term is empty) and who have a
\* membership of exactly the selected organisation (any user if none is
\* selected); organisation names and roles play no part in the text match,
\* and a membership without roles counts for the organisation match.
C12_FilterResultIsExactlyTheMatches ==
    [][/\ \A value \in SearchTerms :
              (handleNameSearch(value) /\ ~(value = Empty /\ organisationFilter = Empty))
                  => users' = Satisfying(users, value, organisationFilter)
       /\ \A value \in OrgChoices :
              (handleOrganisationFilter(value) /\ ~(value = Empty /\ searchTerm = Empty))
                  => users' = Satisfying(users, searchTerm, value)]_vars

\* filtering by Acme has kept ann and bob, whose Acme membership has no roles
C12_Witness ==
    /\ organisationFilter = Acme
    /\ searchTerm = Empty
    /\ users = <<UserA, UserB>>

IsIndexOf(index, list) ==
    /\ \A i \in 1..(Len(index) - 1) : StrLess(index[i], index[i + 1])
    /\ \A i \in 1..Len(index) : index[i] # Empty
    /\ \A i \in 1..Len(index) :
           \E k \in 1..Len(list) : \E j \in 1..Len(list[k].organisations) :
               list[k].organisations[j].orgName = index[i]
    /\ \A k \in 1..Len(list) : \A j \in 1..Len(list[k].organisations) :
           list[k].organisations[j].orgName # Empty
               => \E i \in 1..Len(index) : index[i] = list[k].organisations[j].orgName

\* C14: the Organisation Index computed from a loaded collection is sorted
\* ascending, free of duplicates and of empty names, and holds exactly the
\* non-empty organisation names of the users' memberships; users without
\* memberships add nothing, memberships without roles add their name.
C14_OrganisationIndexSortedDistinctExact ==
    [][/\ IsIndexOf(OrgIndex(users'), users')
       /\ \A r \in ListResponses :
              (ListResolve(r) /\ ~Throws(r) /\ users' # <<>>)
                  => IsIndexOf(organisations', users')]_vars

\* the three users are loaded: the index is Acme, Beta
C14_Witness ==
    /\ users = ListFull
    /\ organisations = <<Acme, Beta>>
    /\ listPending = 0

\* a string is empty after trimming: it holds nothing but blanks
OnlyBlanks(s) == \A i \in 1..Len(s) : s[i] = " "

\* a string reads local@domain.tld: one "@", no blank, something before the
\* "@", and after it a "." with something on both of its sides
ReadsLocalAtDomainTld(s) ==
    /\ Cardinality({i \in 1..Len(s) : s[i] = "@"}) = 1
    /\ \A i \in 1..Len(s) : s[i] # " "
    /\ LET at == CHOOSE i \in 1..Len(s) : s[i] = "@"
       IN  /\ at > 1
           /\ \E dot \in (at + 2)..(Len(s) - 1) : s[dot] = "."

\* the fields validate() must report for a draft
MustReport(fd) ==
    {f \in {"username", "firstname", "lastname"} : OnlyBlanks(fd[f])}
        \cup {f \in {"mail"} : OnlyBlanks(fd.mail) \/ ~ReadsLocalAtDomainTld(fd.mail)}

\* C15: validate() reports a field exactly when username, first name or
\* last name is empty after trimming, or the e-mail is empty after trimming
\* or does not read local@domain.tld; phone, organisation and role are never
\* reported, so the empty draft yields exactly the four required fields.
C15_ValidateReportsExactlyRequired ==
    [][handleSubmit =>
          /\ {f \in Fields : errors'[f] # Null} = MustReport(formData)
          /\ formData = EmptyDraft =>
                 {f \in Fields : errors'[f] # Null}
                     = {"username", "firstname", "lastname", "mail"}]_vars

\* a draft with the e-mail a@b was submitted and the e-mail alone reported
C15_Witness ==
    /\ formData.mail = <<"a","@","b">>
    /\ errors["mail"] = ErrMailInvalid
    /\ errors["username"] = Null
    /\ errors["firstname"] = Null
    /\ errors["lastname"] = Null
    /\ formData.username = <<" ","u">>

\* C16: while the form edits an existing record its username cannot be
\* changed, and every update call submit issues carries the username and the
\* id of the record that was loaded into the form.
C16_UsernameWriteOnce ==
    [][/\ (formOpen /\ editingUser # <<>>)
              => /\ \A value \in FieldValues("username") :
                        ~handleChange("username", value)
                 /\ (formOpen' /\ editingUser' = editingUser /\ Rendered /\ Rendered')
                        => formData'.username = formData.username
       /\ (handleSubmit /\ Len(submitCalls') > Len(submitCalls))
              => LET call == submitCalls'[Len(submitCalls')]
                 IN  call.op = "update"
                         => /\ editingUser # <<>>
                            /\ call.username = editingUser[1].username
                            /\ call.uid = editingUser[1].userUid]_vars

\* an update call for bob is in flight, carrying bob's username and id
C16_Witness ==
    \E i \in 1..Len(submitCalls) :
        /\ submitCalls[i].op = "update"
        /\ submitCalls[i].username = UserB.username
        /\ submitCalls[i].uid = UserB.userUid

\* a record with the two naming variants merged into the canonical fields
Canonical(u) ==
    [u EXCEPT !.firstname = OrElse(u.firstname, u.firstName),
              !.lastname = OrElse(u.lastname, u.lastName),
              !.mail = OrElse(u.mail, u.email)]

\* terms that occur in a first name, a last name and an e-mail of the data
ProbeTerms == {<<"B","o">>, <<"L","e","e">>, <<"@","x">>}

\* C17: the loaded records carry first name, last name and e-mail in the
\* canonical field, whichever variant the response used, and the text filter
\* matches a record carrying them under the alternative names exactly like
\* one carrying them under the canonical names.
C17_NamingVariantsMergedOnLoad ==
    \A k \in 1..Len(users) :
        /\ users[k] = Canonical(users[k])
        /\ \A term \in ProbeTerms :
               MatchesText(users[k], term) <=> MatchesText(Canonical(users[k]), term)

\* the ids a delete can be requested for
UserIds == {UserA.userUid, UserB.userUid, UserC.userUid}

\* C18: requestDelete(id) and cancelDelete() change the dialog state only
\* and issue no gateway call; the dialog is open on a target only through
\* requestDelete of that id and until cancelDelete, and a delete call is
\* issued only by confirmDelete with the dialog open, for the stored target.
C18_DeleteOnlyAfterRequestAndConfirm ==
    [][/\ ((\E id \in UserIds : handleOpenDeleteDialog(id)) \/ handleCloseDeleteDialog)
              => /\ deleteCalls' = deleteCalls
                 /\ listPending' = listPending
                 /\ detailCalls' = detailCalls
                 /\ submitCalls' = submitCalls
                 /\ users' = users
       /\ \A id \in UserIds :
              handleOpenDeleteDialog(id) => deleteDialogOpen' /\ deleteTargetId' = id
       /\ handleCloseDeleteDialog => ~deleteDialogOpen' /\ deleteTargetId' = NullId
       /\ (deleteDialogOpen' /\ deleteTargetId' # deleteTargetId)
              => handleOpenDeleteDialog(deleteTargetId')
       /\ (deleteDialogOpen' /\ ~deleteDialogOpen)
              => handleOpenDeleteDialog(deleteTargetId')
       /\ Len(deleteCalls') > Len(deleteCalls)
              => /\ handleConfirmDelete
                 /\ deleteDialogOpen
                 /\ deleteTargetId \in UserIds
                 /\ deleteCalls' = Append(deleteCalls, deleteCalls'[Len(deleteCalls')])
                 /\ deleteCalls'[Len(deleteCalls')].target = deleteTargetId]_vars

\* the delete of cy was requested and confirmed: its call is in flight
C18_Witness ==
    /\ deleteDialogOpen
    /\ deleteTargetId = UserC.userUid
    /\ Len(deleteCalls) = 1
    /\ deleteCalls[1].target = UserC.userUid

\* C19: when the get-by-id call succeeds, the returned record, taken out of
\* its envelope if it came in one, becomes the selected record and the
\* detail view is opened; when it faults, a general error is set, the detail
\* view is not opened, and the selected record and the collection stay.
C19_DetailStoredOrErrorSet ==
    [][/\ \A i \in 1..Len(detailCalls), enveloped \in BOOLEAN :
              DetailOk(i, enveloped)
                  => /\ selectedUser' = <<UserById(detailCalls[i])>>
                     /\ detailOpen' = TRUE
       /\ \A i \in 1..Len(detailCalls) :
              DetailFault(i)
                  => /\ error' = MsgDetail
                     /\ detailOpen' = detailOpen
                     /\ selectedUser' = selectedUser
                     /\ users' = users]_vars

\* bob's details are on display, and another get-by-id call has faulted
C19_Witness ==
    /\ detailOpen
    /\ selectedUser = <<UserB>>
    /\ error = MsgDetail
    /\ detailCalls = <<>>
    /\ users = ListFull

\* a step of applyFilters(term, org), from either of its two handlers
AppliesFilters(term, org) ==
    \/ handleNameSearch(term) /\ org = organisationFilter
    \/ handleOrganisationFilter(org) /\ term = searchTerm

\* C20: applyFilters with both arguments empty issues one list call and
\* filters nothing locally; with an argument non-empty it issues no gateway
\* call and displays the users of the collection loaded then that satisfy
\* both predicates.
C20_ApplyFiltersReloadsOrFilters ==
    [][\A term \in SearchTerms, org \in OrgChoices :
          AppliesFilters(term, org) =>
              IF term = Empty /\ org = Empty
              THEN /\ listPending' = listPending + 1
                   /\ users' = users
              ELSE /\ listPending' = listPending
                   /\ deleteCalls' = deleteCalls
                   /\ detailCalls' = detailCalls
                   /\ submitCalls' = submitCalls
                   /\ users' = Satisfying(users, term, org)
                   /\ searchTerm' = term
                   /\ organisationFilter' = org]_vars

\* the filters were cleared while only ann was on display: the list call is
\* in flight and the display is as it was
C20_Witness ==
    /\ searchTerm = Empty
    /\ organisationFilter = Empty
    /\ listPending = 1
    /\ users = <<UserA>>
    /\ loading

\* C21: when the create/update call of the mounted form faults, the form
\* stops submitting with the general error of the fault payload's message,
\* or the generic message if it has none; the draft is unchanged, the
\* success flag is not set, no settle timer is started for the attempt, and
\* submit is enabled again.
C21_SubmitFaultShowsMessage ==
    [][\A i \in 1..Len(submitCalls), message \in FaultMessages :
          (SubmitFault(i, message) /\ submitCalls[i].gen = 0)
              => /\ formLoading' = FALSE
                 /\ formError' = IF message # Null THEN message ELSE MsgSave
                 /\ formError' # Null
                 /\ formData' = formData
                 /\ errors' = errors
                 /\ success' = success
                 /\ Len(settleTimers') = Len(settleTimers)
                 /\ Len(submitCalls') = Len(submitCalls) - 1
                 /\ SubmitEnabled']_vars

\* a submission has faulted with a message of the server: it is shown, the
\* valid draft is still in the open form and nothing is pending
C21_Witness ==
    /\ formOpen
    /\ formError = ServerMessage
    /\ ~formLoading
    /\ ~success
    /\ IsValid(formData)
    /\ submitCalls = <<>>
    /\ settleTimers = <<>>

\* C22: after a create/update call succeeds the form sets its success flag
\* and starts the settle delay without issuing a list call or closing; only
\* the settle timer raises the success signal, which issues a list call and
\* closes the form; a successful list result replaces the collection
\* wholesale; every started settle delay eventually does so.
C22_SuccessSettlesThenRefreshes ==
    /\ [][\A i \in 1..Len(submitCalls) :
             SubmitOk(i) => /\ submitCalls[i].gen = 0 => success'
                            /\ Len(settleTimers') = Len(settleTimers) + 1
                            /\ listPending' = listPending
                            /\ formOpen' = formOpen
                            /\ users' = users]_vars
    /\ [][listPending' > listPending
             => ~mounted \/ \E i \in 1..Len(settleTimers) : SettleTimer(i)]_vars
    /\ [][\A i \in 1..Len(settleTimers) :
             SettleTimer(i) => /\ listPending' = listPending + 1
                               /\ loading'
                               /\ ~formOpen']_vars
    /\ [][\A r \in ListResponsesSettling :
             (ListResolve(r) /\ ~Throws(r)) => users' = NormalizedUsers(r)]_vars
    /\ (settleTimers # <<>>) ~> (listPending > 0 /\ ~formOpen)

\* the settle timer of a saved edit has fired: the form is closed and the list
\* call it issued is in flight
C22_Witness ==
    /\ listPending = 1 /\ loading /\ ~formOpen /\ users = ListFull
    /\ settleTimers = <<>> /\ submitCalls = <<>> /\ ~success

\* C23: a refresh issued while a list call is in flight adds a call of its
\* own, and with two list calls in flight each successful response overwrites
\* the collection with its own users when it resolves, whichever call it
\* answers; the other call stays in flight.
C23_OverlappingRefreshLastWins ==
    /\ [][\A value \in SearchTerms :
             (handleNameSearch(value) /\ value = Empty
                  /\ organisationFilter = Empty /\ listPending > 0)
                 => listPending' = listPending + 1 /\ users' = users]_vars
    /\ [][\A r \in ListResponses :
             (ListResolve(r) /\ ~Throws(r) /\ listPending > 1)
                 => /\ users' = NormalizedUsers(r)
                    /\ listPending' = listPending - 1]_vars

\* the first of two overlapping list calls has answered
C23_Witness ==
    /\ listPending = 1 /\ ~loading /\ users = ListOther /\ error = Null
    /\ searchTerm = Empty /\ organisationFilter = Empty

\* C24: cancelling the form (a close that is not the settle timer's) leaves
\* the empty draft, no field errors, no general error and no success flag,
\* and issues no create, update or list call.
C24_CancelResetsWithoutGateway ==
    [][(formOpen /\ ~formOpen' /\ Len(settleTimers') = Len(settleTimers))
           => /\ handleClose
              /\ formData' = EmptyDraft
              /\ \A f \in Fields : errors'[f] = Null
              /\ formError' = Null
              /\ ~success'
              /\ submitCalls' = submitCalls
              /\ listPending' = listPending]_vars

\* a form cancelled while its create/update call was in flight
C24_Witness ==
    /\ ~formOpen /\ formData = EmptyDraft /\ errors = NoErrors
    /\ formError = Null /\ ~success /\ formLoading
    /\ Len(submitCalls) = 1 /\ settleTimers = <<>> /\ listPending = 0

\* C25: typing a value into a field sets that draft field to the value and
\* clears that field's error; every other member of the draft, every other
\* field's error, the general error, the success flag and the submitting
\* flag stay as they were, and no gateway call is issued.
C25_SetFieldTouchesOneField ==
    [][\A name \in Fields : \A value \in TypedValues(name) :
           handleChange(name, value)
               => /\ formData'[name] = value
                  /\ \A g \in DOMAIN formData \ {name} : formData'[g] = formData[g]
                  /\ DOMAIN formData' = DOMAIN formData
                  /\ errors'[name] = Null
                  /\ \A g \in Fields \ {name} : errors'[g] = errors[g]
                  /\ formError' = formError
                  /\ success' = success
                  /\ formLoading' = formLoading
                  /\ submitCalls' = submitCalls
                  /\ listPending' = listPending]_vars

\* a rejected draft whose username was retyped: its error is gone, the
\* e-mail's error is still shown
C25_Witness ==
    /\ formOpen /\ formData.username = <<" ">> /\ errors.username = Null
    /\ errors.mail # Null /\ errors.firstname # Null /\ formData.mail = Empty
    /\ submitCalls = <<>>

\* C26: the loading flag is true in every state in which at least one list
\* call is in flight, also when several list calls overlap.
C26_LoadingWhileListCallInFlight == listPending > 0 => loading

\* C27: between the success of a create/update call and the closing of the
\* form after the settle delay no further create/update call is issued: a
\* call is issued only when no settle timer of the form session that is
\* still open is pending.
C27_NoSubmitDuringSettleDelay ==
    [][Len(submitCalls') > Len(submitCalls)
           => \A k \in 1..Len(settleTimers) : timerOver[k]]_vars

\* C28: the settle timer of a form session that is over (the form was closed
\* since it was submitted) raises no success signal and leaves the form as it
\* is: no list call is issued, and the form that is open now is neither
\* closed nor reset.
C28_StaleSettleTimerIsInert ==
    [][\A i \in 1..Len(settleTimers) :
           (SettleTimer(i) /\ timerOver[i])
               => /\ listPending' = listPending
                  /\ formOpen' = formOpen
                  /\ editingUser' = editingUser
                  /\ formData' = formData]_vars

\* C29: a delete call that succeeds leaves the collection that is loaded when
\* its response is handled, minus the target: a collection that replaced the
\* loaded one while the call was in flight is not overwritten by the snapshot
\* taken when the delete was confirmed.
C29_DeleteAppliesToCurrentCollection ==
    [][\A i \in 1..Len(deleteCalls) :
           DeleteOk(i)
               => LET kept(u) == u.userUid # deleteCalls[i].target
                  IN  users' = SelectSeq(users, kept)]_vars

\* C30: for one request to delete a user at most one delete call is issued:
\* the confirm button issues no call when the request that opened the dialog
\* has been confirmed already.
C30_OneDeleteCallPerRequest ==
    [][Len(deleteCalls') > Len(deleteCalls) => ~confirmedOnce]_vars

====
